--------------------------- MODULE Spec2Model ---------------------------
(***************************************************************************)
(* Transcript verification pipeline of app.py: the web handler             *)
(* verify_transcript, run_verification, extract_text_from_file,            *)
(* verify_digital_document and verify_physical_scan.                       *)
(*                                                                         *)
(* Python strings are sequences of one-character strings; a code point     *)
(* outside ASCII is written as one element "U+XXXX".  The collaborators    *)
(* (pdfplumber, pdf2image, pytesseract, PIL, cv2, the file system) are     *)
(* nondeterministic: each call returns a value, returns None or raises.    *)
(***************************************************************************)
EXTENDS Integers, Sequences, FiniteSets, TLC

\* Bound: pages of a PDF, images the rasterizer returns, and fragments a
\* text given to a verifier directly is made of.
MaxPages == 2

(***************************************************************************)
(* String literals of the program, and of the inputs the model draws.      *)
(***************************************************************************)
\* 'statement of grades'
KwStatementOfGrades ==
    <<"s","t","a","t","e","m","e","n","t"," ","o","f"," ","g","r","a","d","e",
      "s">>

\* 'enrollment number'
KwEnrollmentNumber ==
    <<"e","n","r","o","l","l","m","e","n","t"," ","n","u","m","b","e","r">>

\* 'sgpa'
KwSgpa ==
    <<"s","g","p","a">>

\* 'Indira Gandhi Delhi Technical University'
InstitutionName ==
    <<"I","n","d","i","r","a"," ","G","a","n","d","h","i"," ","D","e","l","h",
      "i"," ","T","e","c","h","n","i","c","a","l"," ","U","n","i","v","e","r",
      "s","i","t","y">>

\* 'digilocker'
DigilockerMarker ==
    <<"d","i","g","i","l","o","c","k","e","r">>

\* '.pdf'
ExtPdf ==
    <<".","p","d","f">>

\* '.jpg'
ExtJpg ==
    <<".","j","p","g">>

\* '.jpeg'
ExtJpeg ==
    <<".","j","p","e","g">>

\* '.png'
ExtPng ==
    <<".","p","n","g">>

\* 'Document Type Detected'
KeyDocType ==
    <<"D","o","c","u","m","e","n","t"," ","T","y","p","e"," ","D","e","t","e",
      "c","t","e","d">>

\* 'Document Format'
KeyDocFormat ==
    <<"D","o","c","u","m","e","n","t"," ","F","o","r","m","a","t">>

\* 'University Logo'
KeyLogo ==
    <<"U","n","i","v","e","r","s","i","t","y"," ","L","o","g","o">>

\* 'Background Watermark'
KeyWatermark ==
    <<"B","a","c","k","g","r","o","u","n","d"," ","W","a","t","e","r","m","a",
      "r","k">>

\* 'Overall Result'
KeyOverall ==
    <<"O","v","e","r","a","l","l"," ","R","e","s","u","l","t">>

\* 'Source'
KeySource ==
    <<"S","o","u","r","c","e">>

\* 'Logo'
LogoWord ==
    <<"L","o","g","o">>

\* 'Physical Scan'
ValPhysicalScan ==
    <<"P","h","y","s","i","c","a","l"," ","S","c","a","n">>

\* 'Digital (DigiLocker)'
ValDigital ==
    <<"D","i","g","i","t","a","l"," ","(","D","i","g","i","L","o","c","k","e",
      "r",")">>

\* '\u2705 Correct'
MsgFormatCorrect ==
    <<"U+2705"," ","C","o","r","r","e","c","t">>

\* '\u274c Incorrect (Found '
MsgFormatIncorrectHead ==
    <<"U+274C"," ","I","n","c","o","r","r","e","c","t"," ","(","F","o","u",
      "n","d"," ">>

\* ' keywords)'
MsgFormatIncorrectTail ==
    <<" ","k","e","y","w","o","r","d","s",")">>

\* '\u26a0\ufe0f Template missing on server'
MsgTemplateMissing ==
    <<"U+26A0","U+FE0F"," ","T","e","m","p","l","a","t","e"," ","m","i","s",
      "s","i","n","g"," ","o","n"," ","s","e","r","v","e","r">>

\* '\u274c Template could not be read'
MsgTemplateUnreadable ==
    <<"U+274C"," ","T","e","m","p","l","a","t","e"," ","c","o","u","l","d",
      " ","n","o","t"," ","b","e"," ","r","e","a","d">>

\* '\u274c Document image is too small'
MsgDocTooSmall ==
    <<"U+274C"," ","D","o","c","u","m","e","n","t"," ","i","m","a","g","e",
      " ","i","s"," ","t","o","o"," ","s","m","a","l","l">>

\* '\u274c Template resize resulted in zero height'
MsgZeroHeight ==
    <<"U+274C"," ","T","e","m","p","l","a","t","e"," ","r","e","s","i","z",
      "e"," ","r","e","s","u","l","t","e","d"," ","i","n"," ","z","e","r","o",
      " ","h","e","i","g","h","t">>

\* '\u274c Template resize failed'
MsgResizeFailed ==
    <<"U+274C"," ","T","e","m","p","l","a","t","e"," ","r","e","s","i","z",
      "e"," ","f","a","i","l","e","d">>

\* '\u2705 Found (Confidence: '
MsgFoundHead ==
    <<"U+2705"," ","F","o","u","n","d"," ","(","C","o","n","f","i","d","e",
      "n","c","e",":"," ">>

\* '\u274c Not Found (Confidence: '
MsgNotFoundHead ==
    <<"U+274C"," ","N","o","t"," ","F","o","u","n","d"," ","(","C","o","n",
      "f","i","d","e","n","c","e",":"," ">>

\* 'VERIFIED'
Verified ==
    <<"V","E","R","I","F","I","E","D">>

\* 'NOT VERIFIED'
NotVerified ==
    <<"N","O","T"," ","V","E","R","I","F","I","E","D">>

\* '\u2705 DigiLocker and University name found'
MsgSourceFound ==
    <<"U+2705"," ","D","i","g","i","L","o","c","k","e","r"," ","a","n","d",
      " ","U","n","i","v","e","r","s","i","t","y"," ","n","a","m","e"," ","f",
      "o","u","n","d">>

\* '\u274c DigiLocker or University name missing'
MsgSourceMissing ==
    <<"U+274C"," ","D","i","g","i","L","o","c","k","e","r"," ","o","r"," ",
      "U","n","i","v","e","r","s","i","t","y"," ","n","a","m","e"," ","m","i",
      "s","s","i","n","g">>

\* 'ERROR: Could not extract any text from the document.'
ErrNoText ==
    <<"E","R","R","O","R",":"," ","C","o","u","l","d"," ","n","o","t"," ","e",
      "x","t","r","a","c","t"," ","a","n","y"," ","t","e","x","t"," ","f","r",
      "o","m"," ","t","h","e"," ","d","o","c","u","m","e","n","t",".">>

\* 'ERROR: PDF is empty or unreadable.'
ErrPdfEmpty ==
    <<"E","R","R","O","R",":"," ","P","D","F"," ","i","s"," ","e","m","p","t",
      "y"," ","o","r"," ","u","n","r","e","a","d","a","b","l","e",".">>

\* 'ERROR: Could not read file as an image.'
ErrNotImage ==
    <<"E","R","R","O","R",":"," ","C","o","u","l","d"," ","n","o","t"," ","r",
      "e","a","d"," ","f","i","l","e"," ","a","s"," ","a","n"," ","i","m","a",
      "g","e",".">>

\* 'ERROR: Image processing failed: '
ErrImageProcessingHead ==
    <<"E","R","R","O","R",":"," ","I","m","a","g","e"," ","p","r","o","c","e",
      "s","s","i","n","g"," ","f","a","i","l","e","d",":"," ">>

\* 'ERROR: No file selected'
ErrNoFile ==
    <<"E","R","R","O","R",":"," ","N","o"," ","f","i","l","e"," ","s","e","l",
      "e","c","t","e","d">>

\* 'ERROR: '
ErrorPrefix ==
    <<"E","R","R","O","R",":"," ">>

\* 'INCONCLUSIVE'
Inconclusive ==
    <<"I","N","C","O","N","C","L","U","S","I","V","E">>

\* 'success'
ClassSuccess ==
    <<"s","u","c","c","e","s","s">>

\* 'fail'
ClassFail ==
    <<"f","a","i","l">>

\* 'uploads'
UploadFolder ==
    <<"u","p","l","o","a","d","s">>

\* 'Statement of Grades'
FragStatement ==
    <<"S","t","a","t","e","m","e","n","t"," ","o","f"," ","G","r","a","d","e",
      "s">>

\* 'ENROLLMENT NUMBER'
FragEnrollment ==
    <<"E","N","R","O","L","L","M","E","N","T"," ","N","U","M","B","E","R">>

\* 'Sgpa'
FragSgpa ==
    <<"S","g","p","a">>

\* 'DigiLocker'
FragDigiLocker ==
    <<"D","i","g","i","L","o","c","k","e","r">>

\* 'INDIRA GANDHI Delhi Technical University'
FragInstitution ==
    <<"I","N","D","I","R","A"," ","G","A","N","D","H","I"," ","D","e","l","h",
      "i"," ","T","e","c","h","n","i","c","a","l"," ","U","n","i","v","e","r",
      "s","i","t","y">>

\* ' \n\t '
FragBlank ==
    <<" ","\n","\t"," ">>

\* 'T.PDF'
NamePdf ==
    <<"T",".","P","D","F">>

\* 's.png'
NamePng ==
    <<"s",".","p","n","g">>

\* 's.Jpeg'
NameJpeg ==
    <<"s",".","J","p","e","g">>

\* 'n.txt'
NameTxt ==
    <<"n",".","t","x","t">>

\* 'Unable to get page count.'
ExcPoppler ==
    <<"U","n","a","b","l","e"," ","t","o"," ","g","e","t"," ","p","a","g","e",
      " ","c","o","u","n","t",".">>

\* 'OpenCV error'
ExcCv ==
    <<"O","p","e","n","C","V"," ","e","r","r","o","r">>

(***************************************************************************)
(* Python values: None, a str, an exception, an image.                     *)
(***************************************************************************)
None == [tag |-> "None"]

Str(s) == [tag |-> "str", val |-> s]

\* bool(v) of a str or None: the test of "if not text"
Truthy(v) == v.tag = "str" /\ v.val # <<>>

(***************************************************************************)
(* str methods                                                             *)
(***************************************************************************)
UpperLetters ==
    <<"A","B","C","D","E","F","G","H","I","J","K","L","M",
      "N","O","P","Q","R","S","T","U","V","W","X","Y","Z">>

LowerLetters ==
    <<"a","b","c","d","e","f","g","h","i","j","k","l","m",
      "n","o","p","q","r","s","t","u","v","w","x","y","z">>

\* the lower-case letter of each upper-case letter
LowerOf ==
    [c \in {UpperLetters[i] : i \in 1..26} |->
        LowerLetters[CHOOSE i \in 1..26 : UpperLetters[i] = c]]

LowerChar(c) == IF c \in DOMAIN LowerOf THEN LowerOf[c] ELSE c

\* s.lower()
Lower(s) == [i \in 1..Len(s) |-> LowerChar(s[i])]

\* needle in hay
Contains(hay, needle) ==
    \E i \in 0..(Len(hay) - Len(needle)) :
        SubSeq(hay, i + 1, i + Len(needle)) = needle

\* s.endswith(suffix)
EndsWith(s, suffix) ==
    /\ Len(suffix) <= Len(s)
    /\ SubSeq(s, Len(s) - Len(suffix) + 1, Len(s)) = suffix

StartsWith(s, prefix) ==
    /\ Len(prefix) <= Len(s)
    /\ SubSeq(s, 1, Len(prefix)) = prefix

Whitespace == {" ", "\t", "\n", "\r", "\f"}

\* s.strip()
Strip(s) ==
    LET keep == {i \in 1..Len(s) : s[i] \notin Whitespace}
    IN  IF keep = {} THEN <<>>
        ELSE LET lo == CHOOSE i \in keep : \A j \in keep : i <= j
                 hi == CHOOSE i \in keep : \A j \in keep : j <= i
             IN  SubSeq(s, lo, hi)

\* "".join(parts)
RECURSIVE Join(_)
Join(parts) ==
    IF parts = <<>> THEN <<>> ELSE Head(parts) \o Join(Tail(parts))

\* os.path.splitext(p)[1]: from the last dot of the last path component,
\* unless that component holds nothing but dots before it
SplitExt(p) ==
    LET seps == {i \in 1..Len(p) : p[i] = "/"}
        dots == {i \in 1..Len(p) : p[i] = "."}
        sepIndex == IF seps = {} THEN 0
                    ELSE CHOOSE i \in seps : \A j \in seps : j <= i
        dotIndex == IF dots = {} THEN 0
                    ELSE CHOOSE i \in dots : \A j \in dots : j <= i
    IN  IF /\ dotIndex > sepIndex
           /\ \E k \in (sepIndex + 1)..(dotIndex - 1) : p[k] # "."
        THEN SubSeq(p, dotIndex, Len(p))
        ELSE <<>>

Digits == <<"0","1","2","3","4","5","6","7","8","9">>

\* f"{n}" of a small natural number
FormatInt(n) ==
    IF n < 10 THEN <<Digits[n + 1]>>
    ELSE <<Digits[(n \div 10) + 1], Digits[(n % 10) + 1]>>

\* f"{x:.2f}" of a score given in hundredths, 0 <= x <= 1
FormatConfidence(h) ==
    <<Digits[(h \div 100) + 1], ".", Digits[((h \div 10) % 10) + 1],
      Digits[(h % 10) + 1]>>

(***************************************************************************)
(* dict: an insertion-ordered sequence of <<key, value>> pairs             *)
(***************************************************************************)
Dict(items) == [tag |-> "dict", items |-> items]

DictHas(d, k) == \E i \in 1..Len(d.items) : d.items[i][1] = k

\* d.get(k, default)
DictGet(d, k, default) ==
    IF DictHas(d, k)
    THEN d.items[CHOOSE i \in 1..Len(d.items) : d.items[i][1] = k][2]
    ELSE default

\* d[k] = v
DictSet(d, k, v) ==
    IF DictHas(d, k)
    THEN Dict([i \in 1..Len(d.items) |->
                  IF d.items[i][1] = k THEN <<k, v>> ELSE d.items[i]])
    ELSE Dict(Append(d.items, <<k, v>>))

DictKeys(d) == [i \in 1..Len(d.items) |-> d.items[i][1]]

(***************************************************************************)
(* Inputs                                                                  *)
(***************************************************************************)
\* a run of 96 characters: 4 short of the text-layer threshold
FragFiller == [i \in 1..96 |-> "x"]

Fragments ==
    {FragStatement, FragEnrollment, FragSgpa, FragDigiLocker,
     FragInstitution, FragBlank}

\* texts handed to a verifier: up to MaxPages fragments, in any order
Texts ==
    {Join(fs) : fs \in UNION {[1..n -> Fragments] : n \in 0..MaxPages}}

\* page.extract_text() of one page: None (no text layer) or its text
EmbeddedPageTexts ==
    {None, Str(FragFiller), Str(FragBlank), Str(FragSgpa),
     Str(FragDigiLocker)}

\* pytesseract.image_to_string(img): a str, possibly empty, or None
OcrOutputs == {None, Str(<<>>)} \cup {Str(f) : f \in Fragments}

FileNames == {NamePdf, NamePng, NameJpeg, NameTxt}

Image(page, shape) ==
    [tag |-> "image", page |-> page, w |-> shape.w, h |-> shape.h]

\* (width, height) of a grayscale page
DocShapes == {[w |-> 6, h |-> 4], [w |-> 100, h |-> 100]}

PageShape == [w |-> 100, h |-> 100]

\* (width, height) of a template asset read from disk
TemplateShapes ==
    {[w |-> 10, h |-> 10], [w |-> 100, h |-> 1], [w |-> 10, h |-> 100]}

\* np.max(res), in hundredths
Scores == {35, 60, 61}

\* where, if anywhere, a cv2 call of one feature check raises
Faults == {"none", "preprocess", "resize", "match"}

(***************************************************************************)
(* verify_digital_document                                                 *)
(***************************************************************************)
\* (DigitalPass_MarkerOnly: the institution name is not looked for)
DigitalPass_MarkerOnly(text) == Contains(Lower(text), DigilockerMarker)

DigitalPass(text) ==
    /\ Contains(Lower(text), Lower(InstitutionName))
    /\ Contains(Lower(text), DigilockerMarker)

verify_digital_document(text) ==
    LET report == Dict(<< <<KeyDocType, ValDigital>> >>)
    IN  IF DigitalPass(text)
        THEN DictSet(DictSet(report, KeyOverall, Verified),
                     KeySource, MsgSourceFound)
        ELSE DictSet(DictSet(report, KeyOverall, NotVerified),
                     KeySource, MsgSourceMissing)

(***************************************************************************)
(* verify_physical_scan: the format check                                  *)
(***************************************************************************)
required_keywords == <<KwStatementOfGrades, KwEnrollmentNumber, KwSgpa>>

\* (KeywordFound_CaseSensitive: "kw in text" for "kw in text.lower()")
KeywordFound_CaseSensitive(kw, text) == Contains(text, kw)

KeywordFound(kw, text) == Contains(Lower(text), kw)

FoundKeywords(text) ==
    Cardinality({i \in 1..Len(required_keywords) :
                    KeywordFound(required_keywords[i], text)})

FormatPass(found) == found >= 2

\* (FormatEntry_Swapped: the two numbers of the message exchanged)
FormatEntry_Swapped(found) ==
    IF found >= 2
    THEN MsgFormatCorrect
    ELSE MsgFormatIncorrectHead \o FormatInt(Len(required_keywords))
         \o <<"/">> \o FormatInt(found) \o MsgFormatIncorrectTail

FormatEntry(found) ==
    IF FormatPass(found)
    THEN MsgFormatCorrect
    ELSE MsgFormatIncorrectHead \o FormatInt(found) \o <<"/">>
         \o FormatInt(Len(required_keywords)) \o MsgFormatIncorrectTail

total_checks_to_pass == 3

\* (Verdict_TwoSuffice: two passed checks are enough)
Verdict_TwoSuffice(passed) ==
    IF passed >= 2 THEN Verified ELSE NotVerified

Verdict(passed) ==
    IF passed >= total_checks_to_pass THEN Verified ELSE NotVerified

(***************************************************************************)
(* verify_physical_scan: one feature check                                 *)
(***************************************************************************)
templates == <<KeyLogo, KeyWatermark>>

IsLogo(feature_name) == Contains(feature_name, LogoWord)

\* threshold, in hundredths
Threshold(feature_name) == IF IsLogo(feature_name) THEN 60 ELSE 35

\* scale_factor, in hundredths
ScaleFactor(feature_name) == IF IsLogo(feature_name) THEN 15 ELSE 50

\* int(doc_w * scale_factor)
TargetW(doc_w, feature_name) == (doc_w * ScaleFactor(feature_name)) \div 100

\* int(template_h * (target_w / template_w))
TargetH(target_w, template) == (template.h * target_w) \div template.w

ScorePasses(score, feature_name) == score > Threshold(feature_name)

\* How one iteration of the loop over templates ends: "soft" (a message
\* and continue), "match" (a score was compared) or "raise".
Soft(m) == [kind |-> "soft", msg |-> m, passed |-> FALSE]

Raised == [kind |-> "raise", msg |-> <<>>, passed |-> FALSE]

\* lines 49-51 (MissingTemplate_Raises: no os.path.exists test, and the
\* processing of the None that cv2.imread returns raises)
MissingTemplate_Raises == Raised

MissingTemplate == Soft(MsgTemplateMissing)

\* lines 98-102
Matched(score, feature_name) ==
    IF ScorePasses(score, feature_name)
    THEN [kind |-> "match", passed |-> TRUE,
          msg |-> MsgFoundHead \o FormatConfidence(score) \o <<")">>]
    ELSE [kind |-> "match", passed |-> FALSE,
          msg |-> MsgNotFoundHead \o FormatConfidence(score) \o <<")">>]

\* One iteration of the loop, given what the file system and cv2 do:
\* exists (os.path.exists), template (cv2.imread: None or a shape), fault
\* (the cv2 call that raises, if any), score (np.max(res)).
FeatureCheck(feature_name, doc, env) ==
    LET target_w == TargetW(doc.w, feature_name)
        target_h == TargetH(target_w, env.template)
    IN  IF ~env.exists THEN MissingTemplate
        ELSE IF env.template = None THEN Soft(MsgTemplateUnreadable)
        ELSE IF env.fault = "preprocess" THEN Raised
        ELSE IF target_w = 0 THEN Soft(MsgDocTooSmall)
        ELSE IF target_h = 0 THEN Soft(MsgZeroHeight)
        ELSE IF env.fault = "resize" THEN Raised
        ELSE IF target_h > doc.h THEN Soft(MsgResizeFailed)
        ELSE IF env.fault = "match" THEN Raised
        ELSE Matched(env.score, feature_name)

FeatureEnvs ==
    [exists : BOOLEAN, template : {None} \cup TemplateShapes,
     fault : Faults, score : Scores]

(***************************************************************************)
(* HTML_TEMPLATE                                                           *)
(***************************************************************************)
\* render_template_string(HTML_TEMPLATE, report=report): None when the
\* result block is not rendered
Render(report) ==
    IF report = None \/ report.items = <<>> THEN None
    ELSE [tag |-> "html",
          class |-> IF Contains(DictGet(report, KeyOverall, <<>>), Verified)
                    THEN ClassSuccess ELSE ClassFail,
          final |-> DictGet(report, KeyOverall, Inconclusive),
          details |-> SelectSeq(DictKeys(report),
                                LAMBDA k : k # KeyOverall)]

(***************************************************************************)
(* State                                                                   *)
(***************************************************************************)
VARIABLES
    pc,             \* position in the code
    entry,          \* the function the outside called
    filepath,       \* run_verification / extract_text_from_file: filepath
    text,           \* extracted text: None or a str
    full_text,      \* extract_text_from_file: the PDF's embedded text
    images,         \* extract_text_from_file: convert_from_path's pages
    ocr_outs,       \* extract_text_from_file: OCR outputs so far, in order
    doc_image,      \* the grayscale page: None or an image
    report,         \* the report being built, then the one returned
    passed_checks,  \* verify_physical_scan: passed_checks
    feature,        \* verify_physical_scan: index of the next template
    template,       \* verify_physical_scan: what each template file gave
    outcome,        \* verify_physical_scan: how each check ended
    calls,          \* the collaborator and verifier calls made, in order
    html            \* the result block of the rendered page

vars ==
    <<pc, entry, filepath, text, full_text, images, ocr_outs, doc_image,
      report, passed_checks, feature, template, outcome, calls, html>>

\* no template file looked at yet
NoTemplate == [k \in {"logo", "watermark"} |-> [state |-> "unread"]]

\* os.path.exists and cv2.imread of one template file
TemplateRead(env) ==
    IF ~env.exists THEN [state |-> "missing"]
    ELSE [state |-> "read", template |-> env.template]

NoOutcome == [k \in {"format", "logo", "watermark"} |-> "pending"]

CheckName(i) == IF IsLogo(templates[i]) THEN "logo" ELSE "watermark"

Init ==
    /\ pc = "idle"
    /\ entry = "none"
    /\ filepath = None
    /\ text = None
    /\ full_text = None
    /\ images = <<>>
    /\ ocr_outs = <<>>
    /\ doc_image = None
    /\ report = None
    /\ passed_checks = 0
    /\ feature = 0
    /\ template = NoTemplate
    /\ outcome = NoOutcome
    /\ calls = <<>>
    /\ html = None

(***************************************************************************)
(* verify_transcript, up to the call of run_verification                   *)
(***************************************************************************)
\* GET, or POST without a file: the page is rendered at once
HandleNoFile ==
    /\ pc = "idle"
    /\ \E method \in {"GET", "POST"} :
          /\ report' = IF method = "POST"
                       THEN Dict(<< <<KeyOverall, ErrNoFile>> >>)
                       ELSE None
          /\ html' = Render(report')
    /\ pc' = "done"
    /\ entry' = "verify_transcript"
    /\ UNCHANGED <<filepath, text, full_text, images, ocr_outs, doc_image,
                   passed_checks, feature, template, outcome, calls>>

\* POST with a file: it is saved and run_verification(filepath) is called
HandleUpload ==
    /\ pc = "idle"
    /\ \E filename \in FileNames :
          filepath' = Str(UploadFolder \o <<"/">> \o filename)
    /\ pc' = "ex_start"
    /\ entry' = "verify_transcript"
    /\ UNCHANGED <<text, full_text, images, ocr_outs, doc_image, report,
                   passed_checks, feature, template, outcome, calls, html>>

(***************************************************************************)
(* extract_text_from_file                                                  *)
(***************************************************************************)
file_ext == Lower(SplitExt(filepath.val))

ExtractStart ==
    /\ pc = "ex_start"
    /\ text' = Str(<<>>)
    /\ pc' = IF file_ext = ExtPdf THEN "ex_pdf"
             ELSE IF file_ext \in {ExtJpg, ExtJpeg, ExtPng} THEN "ex_image"
             ELSE "ex_return"
    /\ UNCHANGED <<entry, filepath, full_text, images, ocr_outs, doc_image,
                   report, passed_checks, feature, template, outcome, calls,
                   html>>

\* "".join(page.extract_text() or "" for page in pdf.pages)
JoinPages(pages) ==
    Join([i \in 1..Len(pages) |->
             IF Truthy(pages[i]) THEN pages[i].val ELSE <<>>])

\* (TextLayerSufficient_Untrimmed: len(full_text) for len(full_text.strip()))
TextLayerSufficient_Untrimmed(t) == ~(Len(t) < 100)

TextLayerSufficient(t) == ~(Len(Strip(t)) < 100)

\* lines 154-156 and 159-160
ExtractPdfText ==
    /\ pc = "ex_pdf"
    /\ calls' = Append(calls, "pdfplumber.open")
    /\ \/ \* pdfplumber raises
          /\ text' = Str(<<>>)
          /\ pc' = "ex_return"
          /\ UNCHANGED full_text
       \/ \E pages \in UNION {[1..n -> EmbeddedPageTexts] :
                                 n \in 0..MaxPages} :
             /\ full_text' = Str(JoinPages(pages))
             /\ IF TextLayerSufficient(full_text'.val)
                THEN text' = full_text' /\ pc' = "ex_return"
                ELSE text' = text /\ pc' = "ex_rasterize"
    /\ UNCHANGED <<entry, filepath, images, ocr_outs, doc_image, report,
                   passed_checks, feature, template, outcome, html>>

\* the result of "".join(...) over the OCR outputs: join raises TypeError
\* on a None item, and the except clause turns that into ""
JoinOcr(outs) ==
    IF \E i \in 1..Len(outs) : outs[i] = None
    THEN Str(<<>>)
    ELSE Str(Join([i \in 1..Len(outs) |-> outs[i].val]))

\* line 157
ExtractRasterize ==
    /\ pc = "ex_rasterize"
    /\ calls' = Append(calls, "extract:convert_from_path")
    /\ \/ \* convert_from_path raises, or returns None (not iterable)
          /\ text' = Str(<<>>)
          /\ pc' = "ex_return"
          /\ UNCHANGED images
       \/ \E n \in 0..MaxPages :
             /\ images' = [i \in 1..n |-> Image(i, PageShape)]
             /\ IF n = 0
                THEN text' = JoinOcr(<<>>) /\ pc' = "ex_return"
                ELSE text' = text /\ pc' = "ex_ocr"
    /\ UNCHANGED <<entry, filepath, full_text, ocr_outs, doc_image, report,
                   passed_checks, feature, template, outcome, html>>

\* line 158: one pytesseract.image_to_string(img) of the generator; join
\* consumes the generator before it looks at the items
ExtractOcrPage ==
    /\ pc = "ex_ocr"
    /\ calls' = Append(calls, "extract:image_to_string")
    /\ \/ \* OCR raises
          /\ text' = Str(<<>>)
          /\ pc' = "ex_return"
          /\ UNCHANGED ocr_outs
       \/ \E out \in OcrOutputs :
             /\ ocr_outs' = Append(ocr_outs, out)
             /\ IF Len(ocr_outs') = Len(images)
                THEN text' = JoinOcr(ocr_outs') /\ pc' = "ex_return"
                ELSE text' = text /\ pc' = "ex_ocr"
    /\ UNCHANGED <<entry, filepath, full_text, images, doc_image, report,
                   passed_checks, feature, template, outcome, html>>

\* line 162
ExtractImage ==
    /\ pc = "ex_image"
    /\ \/ \* Image.open raises
          /\ calls' = Append(calls, "Image.open")
          /\ text' = Str(<<>>)
       \/ \* image_to_string raises
          /\ calls' = calls \o <<"Image.open", "extract:image_to_string">>
          /\ text' = Str(<<>>)
       \/ \E out \in OcrOutputs :
             /\ calls' = calls \o <<"Image.open", "extract:image_to_string">>
             /\ text' = out
    /\ pc' = "ex_return"
    /\ UNCHANGED <<entry, filepath, full_text, images, ocr_outs, doc_image,
                   report, passed_checks, feature, template, outcome, html>>

(***************************************************************************)
(* run_verification                                                        *)
(***************************************************************************)
\* (IsDigital_CaseSensitive: "digilocker" in text)
IsDigital_CaseSensitive(t) == Contains(t, DigilockerMarker)

IsDigital(t) == Contains(Lower(t), DigilockerMarker)

NoText(t) == ~Truthy(t)

ErrorReport(msg) == Dict(<< <<KeyOverall, msg>> >>)

\* lines 127-134: extract_text_from_file has returned; its locals are gone
Classify ==
    /\ pc = "ex_return"
    /\ IF NoText(text)
       THEN /\ report' = ErrorReport(ErrNoText)
            /\ pc' = "rv_return"
            /\ calls' = calls
       ELSE IF IsDigital(text.val)
       THEN /\ report' = verify_digital_document(text.val)
            /\ pc' = "rv_return"
            /\ calls' = Append(calls, "verify_digital_document")
       ELSE /\ report' = report
            /\ pc' = "rv_acquire"
            /\ calls' = calls
    /\ full_text' = None
    /\ images' = <<>>
    /\ ocr_outs' = <<>>
    /\ UNCHANGED <<entry, filepath, text, doc_image, passed_checks, feature,
                   template, outcome, html>>

IsPdfPath(p) == EndsWith(Lower(p), ExtPdf)

ImageError(e) == ErrorReport(ErrImageProcessingHead \o e)

\* lines 135-146, up to the call of verify_physical_scan
Acquire ==
    /\ pc = "rv_acquire"
    /\ IF IsPdfPath(filepath.val)
       THEN /\ calls' = Append(calls, "run:convert_from_path")
            /\ \/ \* convert_from_path raises
                  /\ report' = ImageError(ExcPoppler)
                  /\ pc' = "rv_return"
                  /\ UNCHANGED doc_image
               \/ \* no pages: None or an empty list
                  /\ report' = ErrorReport(ErrPdfEmpty)
                  /\ pc' = "rv_return"
                  /\ UNCHANGED doc_image
               \/ \* cv2.cvtColor raises
                  /\ report' = ImageError(ExcCv)
                  /\ pc' = "rv_return"
                  /\ UNCHANGED doc_image
               \/ \E n \in 1..MaxPages, shape \in DocShapes :
                     LET pages == [i \in 1..n |-> Image(i, shape)]
                     IN  /\ doc_image' = pages[1]
                         /\ pc' = "ps_format"
                         /\ UNCHANGED report
       ELSE /\ calls' = Append(calls, "cv2.imread")
            /\ \/ \* cv2.imread raises
                  /\ report' = ImageError(ExcCv)
                  /\ pc' = "rv_return"
                  /\ UNCHANGED doc_image
               \/ \* cv2.imread returns None
                  /\ report' = ErrorReport(ErrNotImage)
                  /\ pc' = "rv_return"
                  /\ UNCHANGED doc_image
               \/ \E shape \in DocShapes :
                     /\ doc_image' = Image(1, shape)
                     /\ pc' = "ps_format"
                     /\ UNCHANGED report
    /\ UNCHANGED <<entry, filepath, text, full_text, images, ocr_outs,
                   passed_checks, feature, template, outcome, html>>

(***************************************************************************)
(* verify_physical_scan                                                    *)
(***************************************************************************)
\* where verify_physical_scan returns to
ReturnPc == IF entry = "verify_transcript" THEN "rv_return" ELSE "returned"

\* where an exception raised in verify_physical_scan ends up: in the except
\* clause of run_verification (lines 135, 145-146), or with the caller
\* (CatchPc_NoTry: the call is not inside a try)
CatchPc_NoTry(caller) == "raised"

CatchPc(caller) ==
    IF caller = "verify_transcript" THEN "rv_return" ELSE "raised"

\* lines 28-39
FormatCheck ==
    /\ pc = "ps_format"
    /\ LET found_keywords == FoundKeywords(text.val)
       IN  /\ report' = DictSet(Dict(<< <<KeyDocType, ValPhysicalScan>> >>),
                                KeyDocFormat, FormatEntry(found_keywords))
           /\ passed_checks' = IF FormatPass(found_keywords) THEN 1 ELSE 0
           /\ outcome' = [NoOutcome EXCEPT !["format"] =
                             IF FormatPass(found_keywords) THEN "pass"
                             ELSE "fail"]
    /\ feature' = 1
    /\ pc' = "ps_feature"
    /\ calls' = Append(calls, "verify_physical_scan")
    /\ UNCHANGED <<entry, filepath, text, full_text, images, ocr_outs,
                   doc_image, template, html>>

OutcomeOf(r) ==
    IF r.kind = "raise" THEN "raise"
    ELSE IF r.kind = "soft" THEN "soft"
    ELSE IF r.passed THEN "pass" ELSE "fail"

\* lines 48-102 for one template and, after the last one, lines 105-110.
\* An exception leaves verify_physical_scan; inside run_verification the
\* except clause of lines 145-146 turns it into a report.
FeatureStep ==
    /\ pc = "ps_feature"
    /\ \E env \in FeatureEnvs :
          LET feature_name == templates[feature]
              r == FeatureCheck(feature_name, doc_image, env)
              passed == passed_checks + (IF r.passed THEN 1 ELSE 0)
              entered == DictSet(report, feature_name, r.msg)
          IN  /\ template' = [template EXCEPT ![CheckName(feature)] =
                                  TemplateRead(env)]
              /\ outcome' = [outcome EXCEPT ![CheckName(feature)] =
                                OutcomeOf(r)]
              /\ IF r.kind = "raise"
                 THEN /\ pc' = CatchPc(entry)
                      /\ report' = IF pc' = "rv_return"
                                   THEN ImageError(ExcCv) ELSE report
                      /\ UNCHANGED <<passed_checks, feature>>
                 ELSE /\ passed_checks' = passed
                      /\ feature' = feature + 1
                      /\ IF feature = Len(templates)
                         THEN /\ report' = DictSet(entered, KeyOverall,
                                                   Verdict(passed))
                              /\ pc' = ReturnPc
                         ELSE /\ report' = entered
                              /\ pc' = "ps_feature"
    /\ UNCHANGED <<entry, filepath, text, full_text, images, ocr_outs,
                   doc_image, calls, html>>

(***************************************************************************)
(* verify_transcript, from the return of run_verification                  *)
(***************************************************************************)
\* line 224; the locals of run_verification are gone
RenderResult ==
    /\ pc = "rv_return"
    /\ html' = Render(report)
    /\ pc' = "done"
    /\ text' = None
    /\ doc_image' = None
    /\ passed_checks' = 0
    /\ feature' = 0
    /\ UNCHANGED <<entry, filepath, full_text, images, ocr_outs, report,
                   template, outcome, calls>>

(***************************************************************************)
(* The verifiers called on their own                                       *)
(***************************************************************************)
CallVerifyDigital ==
    /\ pc = "idle"
    /\ \E t \in Texts :
          /\ text' = Str(t)
          /\ report' = verify_digital_document(t)
    /\ entry' = "verify_digital_document"
    /\ calls' = Append(calls, "verify_digital_document")
    /\ pc' = "returned"
    /\ UNCHANGED <<filepath, full_text, images, ocr_outs, doc_image,
                   passed_checks, feature, template, outcome, html>>

CallVerifyPhysical ==
    /\ pc = "idle"
    /\ \E t \in Texts, shape \in DocShapes :
          /\ text' = Str(t)
          /\ doc_image' = Image(1, shape)
    /\ entry' = "verify_physical_scan"
    /\ pc' = "ps_format"
    /\ UNCHANGED <<filepath, full_text, images, ocr_outs, report,
                   passed_checks, feature, template, outcome, calls, html>>

Next ==
    \/ HandleNoFile
    \/ HandleUpload
    \/ ExtractStart
    \/ ExtractPdfText
    \/ ExtractRasterize
    \/ ExtractOcrPage
    \/ ExtractImage
    \/ Classify
    \/ Acquire
    \/ FormatCheck
    \/ FeatureStep
    \/ RenderResult
    \/ CallVerifyDigital
    \/ CallVerifyPhysical

Spec == Init /\ [][Next]_vars

(***************************************************************************)
(* Vocabulary of the properties                                            *)
(***************************************************************************)
\* two characters that differ at most in case
LetterPairs == {{UpperLetters[i], LowerLetters[i]} : i \in 1..26}

SameLetter(a, b) == a = b \/ {a, b} \in LetterPairs

\* needle occurs in hay, whatever the case of either
ContainsIgnoreCase(hay, needle) ==
    \E i \in 0..(Len(hay) - Len(needle)) :
        \A j \in 1..Len(needle) : SameLetter(hay[i + j], needle[j])

\* the format keywords that occur in t
KeywordsIn(t) ==
    {kw \in {KwStatementOfGrades, KwEnrollmentNumber, KwSgpa} :
        ContainsIgnoreCase(t, kw)}

InHandler == entry = "verify_transcript"

\* run_verification has returned to verify_transcript
RunReturned == InHandler /\ pc = "rv_return"

Overall == DictGet(report, KeyOverall, <<>>)

\* verify_physical_scan has returned its report
PhysicalReturned ==
    /\ pc \in {"rv_return", "returned"}
    /\ outcome["watermark"] \notin {"pending", "raise"}

\* verify_digital_document has returned its report
DigitalReturned ==
    /\ pc \in {"rv_return", "returned"}
    /\ calls # <<>>
    /\ calls[Len(calls)] = "verify_digital_document"

Called(name) == \E i \in 1..Len(calls) : calls[i] = name

(***************************************************************************)
(* C1: whatever the collaborators do, run_verification never raises to     *)
(* its caller, and the report it returns holds "Overall Result" with the   *)
(* value "VERIFIED", "NOT VERIFIED" or a string starting with "ERROR: ".   *)
(***************************************************************************)
C1_NeverRaisesWellFormed ==
    InHandler =>
        /\ pc # "raised"
        /\ pc = "rv_return" =>
              /\ report # None
              /\ DictHas(report, KeyOverall)
              /\ \/ Overall = Verified
                 \/ Overall = NotVerified
                 \/ StartsWith(Overall, ErrorPrefix)

\* template matching of the watermark raised and was reported as an error
C1_Witness ==
    /\ RunReturned
    /\ outcome["logo"] = "pass"
    /\ outcome["watermark"] = "raise"
    /\ Overall = ErrImageProcessingHead \o ExcCv

(***************************************************************************)
(* C3: verify_physical_scan returns "VERIFIED" exactly when the format,    *)
(* logo and watermark checks all passed, and "NOT VERIFIED" for each of    *)
(* the other seven combinations, soft failures included.                   *)
(***************************************************************************)
C3_VerifiedIffAllThree ==
    PhysicalReturned =>
        IF \A c \in {"format", "logo", "watermark"} : outcome[c] = "pass"
        THEN Overall = Verified
        ELSE Overall = NotVerified

\* two checks passed and the third ended in a soft failure
C3_Witness ==
    /\ PhysicalReturned
    /\ outcome["format"] = "pass"
    /\ outcome["logo"] = "pass"
    /\ outcome["watermark"] = "soft"
    /\ Overall = NotVerified

(***************************************************************************)
(* C4: verify_digital_document returns "VERIFIED" exactly when the text    *)
(* holds, in any case, both the institution name and "digilocker", and     *)
(* "NOT VERIFIED" otherwise.                                               *)
(***************************************************************************)
C4_DigitalIffBoth ==
    DigitalReturned =>
        IF /\ ContainsIgnoreCase(text.val, InstitutionName)
           /\ ContainsIgnoreCase(text.val, DigilockerMarker)
        THEN Overall = Verified
        ELSE Overall = NotVerified

\* "digilocker" present, the institution name missing
C4_Witness ==
    /\ DigitalReturned
    /\ ContainsIgnoreCase(text.val, DigilockerMarker)
    /\ ~ContainsIgnoreCase(text.val, InstitutionName)
    /\ Overall = NotVerified

AfterExtraction == {"rv_acquire", "ps_format", "ps_feature", "rv_return"}

\* nothing but the no-text report, and nothing done to produce more
ShortCircuited ==
    /\ pc = "rv_return"
    /\ report = Dict(<< <<KeyOverall, ErrNoText>> >>)
    /\ ~Called("verify_digital_document")
    /\ ~Called("verify_physical_scan")
    /\ ~Called("run:convert_from_path")
    /\ ~Called("cv2.imread")
    /\ doc_image = None
    /\ outcome = NoOutcome

EmptyText == text = None \/ text.val = <<>>

WhitespaceOnlyText == text # None /\ text.val # <<>> /\ Strip(text.val) = <<>>

\* C2 as claimed: whenever the extracted text is empty or consists only of
\* whitespace, run_verification returns exactly the no-text ERROR report and
\* performs no classification, image acquisition or check.
C2_AsClaimed ==
    (InHandler /\ pc \in AfterExtraction
        /\ (EmptyText \/ WhitespaceOnlyText)) => ShortCircuited

(***************************************************************************)
(* C6: extract_text_from_file on a PDF whose text layer was read.          *)
(***************************************************************************)
\* extract_text_from_file has returned, having read the PDF's text layer
PdfExtracted == pc = "ex_return" /\ full_text # None

TrimmedLength == Len(Strip(full_text.val))

OcrCalls ==
    Cardinality({i \in 1..Len(calls) : calls[i] = "extract:image_to_string"})

\* the OCR outputs of all pages, concatenated in page order
OcrConcatenation ==
    Join([i \in 1..Len(ocr_outs) |->
             IF ocr_outs[i] = None THEN <<>> ELSE ocr_outs[i].val])

UsesTextLayer ==
    /\ text = full_text
    /\ ~Called("extract:convert_from_path")
    /\ OcrCalls = 0

\* every page was OCR'd and every OCR call returned a str
AllPagesRead ==
    /\ Len(ocr_outs) = Len(images)
    /\ OcrCalls = Len(images)
    /\ \A i \in 1..Len(ocr_outs) : ocr_outs[i] # None

FeatureKey(c) == IF c = "logo" THEN KeyLogo ELSE KeyWatermark

Other(c) == IF c = "logo" THEN "watermark" ELSE "logo"

\* int(doc_w * 0.15) for the logo, int(doc_w * 0.50) for the watermark
ResizeWidth(c) ==
    IF c = "logo" THEN (doc_image.w * 15) \div 100 ELSE doc_image.w \div 2

ResizeHeight(c) ==
    (template[c].template.h * ResizeWidth(c)) \div template[c].template.w

\* the soft failure that the template file and the sizes call for, if any
ExpectedSoftFailure(c) ==
    IF template[c].state = "missing" THEN MsgTemplateMissing
    ELSE IF template[c].template = None THEN MsgTemplateUnreadable
    ELSE IF ResizeWidth(c) = 0 THEN MsgDocTooSmall
    ELSE IF ResizeHeight(c) = 0 THEN MsgZeroHeight
    ELSE IF ResizeHeight(c) > doc_image.h THEN MsgResizeFailed
    ELSE <<>>

\* the report verify_physical_scan is building or has returned
PhysicalReport ==
    /\ report # None
    /\ DictGet(report, KeyDocType, <<>>) = ValPhysicalScan

PhysicalEnded == pc \in {"rv_return", "returned", "raised"}

C7_SoftFailureIsLocal ==
    \A c \in {"logo", "watermark"} :
        (pc # "done" /\ template[c].state # "unread"
            /\ ExpectedSoftFailure(c) # <<>>) =>
            \* a missing or unreadable file never raises; the sizes are
            \* looked at only if the blur or equalization did not raise
            /\ template[c].state = "missing" => outcome[c] = "soft"
            /\ (template[c].state = "read" /\ template[c].template = None)
                  => outcome[c] = "soft"
            /\ outcome[c] \in {"soft", "raise"}
            /\ outcome[c] = "soft" =>
                  /\ PhysicalReport =>
                        DictGet(report, FeatureKey(c), <<>>)
                           = ExpectedSoftFailure(c)
                  /\ passed_checks =
                        Cardinality({k \in DOMAIN outcome :
                                        outcome[k] = "pass"})
                  /\ outcome["format"] # "pending"
                  /\ PhysicalEnded => outcome[Other(c)] # "pending"
                  /\ PhysicalReturned =>
                        /\ DictHas(report, KeyDocFormat)
                        /\ DictHas(report, FeatureKey(Other(c)))
                        /\ Overall = NotVerified

\* the logo template is missing; the format and the watermark checks pass
C7_Witness ==
    /\ PhysicalReturned
    /\ template["logo"].state = "missing"
    /\ DictGet(report, KeyLogo, <<>>) = MsgTemplateMissing
    /\ outcome["format"] = "pass"
    /\ outcome["watermark"] = "pass"
    /\ passed_checks = 2

(***************************************************************************)
(* C8: for a non-empty text run_verification takes the digital path        *)
(* exactly when the text holds "digilocker" in any case: it then returns   *)
(* the report of verify_digital_document and never rasterizes a page,      *)
(* loads an image or runs a check of the physical scan; otherwise it       *)
(* acquires the page image (of a PDF, the first page) and every report it  *)
(* returns that is not an ERROR comes from verify_physical_scan.           *)
(***************************************************************************)
\* the name of the uploaded file ends in ".pdf", in any case
IsPdfFile ==
    /\ Len(filepath.val) >= Len(ExtPdf)
    /\ \A j \in 1..Len(ExtPdf) :
          SameLetter(filepath.val[Len(filepath.val) - Len(ExtPdf) + j],
                     ExtPdf[j])

C8_DigitalPathIffMarker ==
    (InHandler /\ pc \in AfterExtraction /\ ~EmptyText) =>
        IF ContainsIgnoreCase(text.val, DigilockerMarker)
        THEN /\ pc = "rv_return"
             /\ DigitalReturned
             /\ report = verify_digital_document(text.val)
             /\ DictGet(report, KeyDocType, <<>>) = ValDigital
             /\ Overall \in {Verified, NotVerified}
             /\ ~Called("run:convert_from_path")
             /\ ~Called("cv2.imread")
             /\ ~Called("verify_physical_scan")
             /\ doc_image = None
             /\ outcome = NoOutcome
        ELSE /\ ~Called("verify_digital_document")
             /\ pc # "rv_acquire" =>
                   IF IsPdfFile
                   THEN Called("run:convert_from_path")
                        /\ ~Called("cv2.imread")
                   ELSE Called("cv2.imread")
                        /\ ~Called("run:convert_from_path")
             /\ doc_image # None => doc_image.page = 1
             /\ (pc = "rv_return" /\ ~StartsWith(Overall, ErrorPrefix)) =>
                   /\ Called("verify_physical_scan")
                   /\ PhysicalReturned
                   /\ PhysicalReport

\* "DigiLocker", not in lower case, in the OCR text of an image
C8_Witness ==
    /\ RunReturned
    /\ text = Str(FragDigiLocker)
    /\ Called("Image.open")
    /\ DigitalReturned
    /\ Overall = NotVerified

(***************************************************************************)
(* C9: the "Document Format" entry of verify_physical_scan's report.       *)
(***************************************************************************)
FormatEntryReturned == DictGet(report, KeyDocFormat, <<>>)

\* C9 as claimed: every report returned by verify_physical_scan records in
\* its "Document Format" entry the number of format keywords found, when
\* the format check passes as when it fails.
C9_AsClaimed ==
    PhysicalReturned =>
        Contains(FormatEntryReturned,
                 <<Digits[Cardinality(KeywordsIn(text.val)) + 1]>>)

\* C9 amended: the "Document Format" entry records the number of format
\* keywords found (as "Found n/3 keywords") when the format check fails;
\* when it passes the entry is "Correct" and holds no count.
C9_CountOnlyOnFailure ==
    PhysicalReturned =>
        LET n == Cardinality(KeywordsIn(text.val))
        IN  IF n >= 2
            THEN FormatEntryReturned = MsgFormatCorrect
            ELSE FormatEntryReturned =
                    MsgFormatIncorrectHead \o <<Digits[n + 1]>>
                    \o <<"/", "3">> \o MsgFormatIncorrectTail

\* one keyword found: the entry says 1/3
C9_Witness ==
    /\ PhysicalReturned
    /\ Cardinality(KeywordsIn(text.val)) = 1
    /\ Contains(FormatEntryReturned, <<"F","o","u","n","d"," ","1","/","3">>)

(***************************************************************************)
(* C10: the page rendered by verify_transcript shows the report with the   *)
(* "success" style exactly when its Overall Result is "VERIFIED"; "NOT     *)
(* VERIFIED" and the ERROR messages are shown with the "fail" style.       *)
(***************************************************************************)
C10_SuccessIffVerified ==
    (pc = "done" /\ html # None) =>
        IF Overall = Verified
        THEN html.class = ClassSuccess
        ELSE html.class = ClassFail

=============================================================================
